---- MODULE Spec2Model ----
(***************************************************************************)
(* create-geo-app: the setup orchestrator of src/index.js.                 *)
(*                                                                         *)
(* Strings the code inspects character by character (the command-line     *)
(* arguments) are sequences of one-character strings.  File contents are  *)
(* sequences of text fragments; the text of a file is the concatenation   *)
(* of its fragments.  A path is a pair <<d, rel>>: d is <<>> for the      *)
(* directory the tool was started from, or the name of a sub-directory of *)
(* it, and rel is the sequence of path segments below d.                  *)
(***************************************************************************)
EXTENDS Integers, Sequences, FiniteSets, TLC

VARIABLES argv, pc, running, cwd, dirs, files, trace, out, exitCode

vars == <<argv, pc, running, cwd, dirs, files, trace, out, exitCode>>

----------------------------------------------------------------------------
(* Bounds of the explored inputs.                                          *)

MaxNameLen == 2
MaxExtraArgs == 1
MaxRuns == 2

InputChars == {"a", "0", "-", "A", "_"}

SeqsUpTo(S, n) == UNION {[1..k -> S] : k \in 0..n}

HelpLong == <<"-", "-", "h", "e", "l", "p">>
HelpShort == <<"-", "h">>
MyApp == <<"m", "y", "-", "a", "p", "p">>
MyAppBad == <<"M", "y", " ", "A", "p", "p">>

NodePath == <<"/", "n", "o", "d", "e">>
ScriptPath == <<"/", "i", "n", "d", "e", "x", ".", "j", "s">>

NameInputs ==
  SeqsUpTo(InputChars, MaxNameLen) \cup {HelpLong, HelpShort, MyApp, MyAppBad}
ExtraInputs == {HelpLong, HelpShort, <<"x">>}

ArgvInputs ==
  {<<NodePath, ScriptPath>>}
  \cup {<<NodePath, ScriptPath, n>> \o e :
          n \in NameInputs, e \in SeqsUpTo(ExtraInputs, MaxExtraArgs)}

----------------------------------------------------------------------------
(* Argument handling, main() lines 7-37.                                   *)

\* the value of an absent array element
Undefined == <<"undefined">>

\* process.argv[i] with the 0-based index of the code
ArgvAt(av, i) == IF i + 1 <= Len(av) THEN av[i + 1] ELSE Undefined

ProjectNameOf(av) == ArgvAt(av, 2)

\* process.argv.includes(x)
Includes(av, x) == \E i \in 1..Len(av) : av[i] = x

\* variant: only the first argument is looked at
HasHelpFlag_FirstOnly(av) == ArgvAt(av, 2) \in {HelpLong, HelpShort}

HasHelpFlag(av) == Includes(av, HelpLong) \/ Includes(av, HelpShort)

\* variant: only an absent argument counts as missing
IsMissing_UndefinedOnly(n) == n = Undefined

\* !projectName : undefined and the empty string are falsy
IsMissing(n) == n = Undefined \/ n = <<>>

Lower == {"a", "b", "c", "d", "e", "f", "g", "h", "i", "j", "k", "l", "m",
          "n", "o", "p", "q", "r", "s", "t", "u", "v", "w", "x", "y", "z"}
Digits == {"0", "1", "2", "3", "4", "5", "6", "7", "8", "9"}
NameClass == Lower \cup Digits \cup {"-"}
Upper == {"A", "B", "C", "D", "E", "F", "G", "H", "I", "J", "K", "L", "M",
          "N", "O", "P", "Q", "R", "S", "T", "U", "V", "W", "X", "Y", "Z"}

\* the string a value is converted to by RegExp.prototype.test
ToStr(n) == IF n = Undefined THEN <<"u", "n", "d", "e", "f", "i", "n", "e", "d">> ELSE n

\* variant: the pattern with the i flag
ValidName_IgnoreCase(n) ==
  Len(ToStr(n)) >= 1 /\ \A i \in 1..Len(ToStr(n)) : ToStr(n)[i] \in NameClass \cup Upper

\* /^[a-z0-9-]+$/.test(n)
ValidName(n) ==
  Len(ToStr(n)) >= 1 /\ \A i \in 1..Len(ToStr(n)) : ToStr(n)[i] \in NameClass

----------------------------------------------------------------------------
(* The sequence of effects of main(), lines 39-154.                        *)

SubprocessSteps ==
  {"createNextApp", "shadcnInit", "shadcnAddAll", "npmNextThemes", "npmThirdParties"}

WriteOrder ==
  <<"createThemeProvider", "updateRootLayout", "createModeToggle",
    "createMobileMenu", "createHeaderComponent", "createFooterComponent",
    "createHoverPrefetchLink", "createEnvFile", "createAboutPage",
    "createContactPage", "createPrivacyPage", "createTermsPage",
    "createGetStartedPage", "createDocsPage", "createNotFoundPage",
    "createErrorPage", "createLoadingPage", "createSitemap", "createRobots",
    "createOptimizedNextConfig", "createInstrumentation",
    "createSuspenseWrapper", "createStreamingLayout", "createOptimizedFonts",
    "updateMainPage", "createProxyMiddleware">>

StepOrder ==
  <<"createNextApp", "chdir", "shadcnInit", "delay", "shadcnAddAll",
    "npmNextThemes", "npmThirdParties">> \o WriteOrder

WriteSteps == {WriteOrder[i] : i \in 1..Len(WriteOrder)}
AllSteps == {StepOrder[i] : i \in 1..Len(StepOrder)}
AwaitedSteps == AllSteps \ {"chdir"}

StepIndex(s) == CHOOSE i \in 1..Len(StepOrder) : StepOrder[i] = s

\* variant: add-all directly after init, without the delay
NextStep_NoDelay(s) ==
  IF s = "shadcnInit" THEN "shadcnAddAll"
  ELSE IF StepIndex(s) < Len(StepOrder) THEN StepOrder[StepIndex(s) + 1] ELSE "success"

\* variant: the success message before the last file function
NextStep_EarlySuccess(s) ==
  IF s = "updateMainPage" THEN "success"
  ELSE IF StepIndex(s) < Len(StepOrder) THEN StepOrder[StepIndex(s) + 1] ELSE "success"

\* variant: the layout patch after the last template instead of after the first
NextStep_PatchLast(s) ==
  IF s = "createThemeProvider" THEN "createModeToggle"
  ELSE IF s = "createProxyMiddleware" THEN "updateRootLayout"
  ELSE IF s = "updateRootLayout" THEN "success"
  ELSE IF StepIndex(s) < Len(StepOrder) THEN StepOrder[StepIndex(s) + 1] ELSE "success"

\* the statement that follows step s inside the try block
NextStep(s) ==
  IF StepIndex(s) < Len(StepOrder) THEN StepOrder[StepIndex(s) + 1] ELSE "success"

\* variant: the error is swallowed and the sequence goes on
OnFailure_Continue(s) == NextStep(s)

\* a rejected await or a throw inside the try block transfers to the catch clause
OnFailure(s) == "catch"

----------------------------------------------------------------------------
(* The file system as far as the tool touches it: fs/promises mkdir and    *)
(* writeFile (line 3) and the readFile helper (lines 1937-1940).  Relative *)
(* paths resolve against the working directory c.                          *)

Parent(rel) == SubSeq(rel, 1, Len(rel) - 1)

\* path.join(dir, file), line 4
Join(dir, file) == Append(dir, file)

\* variant: mkdir that creates nothing
MkdirP_Noop(c, d, dir) == d

\* mkdir(dir, { recursive: true }) creates dir and its missing ancestors
MkdirP(c, d, dir) == d \cup {<<c, SubSeq(dir, 1, k)>> : k \in 1..Len(dir)}

\* mkdir rejects when a component of dir is an existing file or c is gone
MkdirRejects(c, d, f, dir) ==
  \/ <<c, <<>>>> \notin d
  \/ \E k \in 1..Len(dir) : <<c, SubSeq(dir, 1, k)>> \in DOMAIN f

\* writeFile rejects when the parent directory is missing or the target is a directory
WriteRejects(c, d, f, rel) ==
  \/ <<c, Parent(rel)>> \notin d
  \/ <<c, rel>> \in d

\* variant: append to an existing file (flag 'a')
WriteFile_Append(f, p, content) ==
  [q \in (DOMAIN f) \cup {p} |->
     IF q = p THEN (IF p \in DOMAIN f THEN f[p] \o content ELSE content) ELSE f[q]]

\* variant: an existing file is left as it is (flag 'wx' without the error)
WriteFile_KeepExisting(f, p, content) ==
  [q \in (DOMAIN f) \cup {p} |-> IF q \in DOMAIN f THEN f[q] ELSE content]

\* writeFile(path, content): create or truncate, then write content
WriteFile(f, p, content) ==
  [q \in (DOMAIN f) \cup {p} |-> IF q = p THEN content ELSE f[q]]

\* readFile(path, 'utf-8') rejects when there is no such file
ReadRejects(c, f, rel) == <<c, rel>> \notin DOMAIN f

\* outcomes of the environment for one file step: no fault, or a rejected
\* mkdir, readFile or writeFile (the last one before or after truncation)
Faults == {"none", "mkdir", "read", "write", "writeTrunc"}

----------------------------------------------------------------------------
(* The template-writing functions, lines 168-185 and 223-1934: the target  *)
(* of each, whether it calls mkdir first, and the literal it writes.       *)

Target(mk, dir, file) == [mk |-> mk, dir |-> dir, file |-> file]

\* variant: the proxy file under the name of the older convention
WriteTarget_Middleware(s) ==
  CASE s = "createThemeProvider" -> Target(TRUE, <<"components">>, "theme-provider.tsx")
    [] s = "updateRootLayout" -> Target(FALSE, <<"app">>, "layout.tsx")
    [] s = "createModeToggle" -> Target(FALSE, <<"components">>, "mode-toggle.tsx")
    [] s = "createMobileMenu" -> Target(TRUE, <<"components">>, "mobile-menu.tsx")
    [] s = "createHeaderComponent" -> Target(TRUE, <<"components">>, "header.tsx")
    [] s = "createFooterComponent" -> Target(TRUE, <<"components">>, "footer.tsx")
    [] s = "createHoverPrefetchLink" -> Target(TRUE, <<"components">>, "hover-prefetch-link.tsx")
    [] s = "createEnvFile" -> Target(FALSE, <<>>, ".env")
    [] s = "createAboutPage" -> Target(TRUE, <<"app", "about">>, "page.tsx")
    [] s = "createContactPage" -> Target(TRUE, <<"app", "contact">>, "page.tsx")
    [] s = "createPrivacyPage" -> Target(TRUE, <<"app", "privacy">>, "page.tsx")
    [] s = "createTermsPage" -> Target(TRUE, <<"app", "terms">>, "page.tsx")
    [] s = "createGetStartedPage" -> Target(TRUE, <<"app", "get-started">>, "page.tsx")
    [] s = "createDocsPage" -> Target(TRUE, <<"app", "docs">>, "page.tsx")
    [] s = "createNotFoundPage" -> Target(FALSE, <<"app">>, "not-found.tsx")
    [] s = "createErrorPage" -> Target(FALSE, <<"app">>, "error.tsx")
    [] s = "createLoadingPage" -> Target(FALSE, <<"app">>, "loading.tsx")
    [] s = "createSitemap" -> Target(FALSE, <<"app">>, "sitemap.ts")
    [] s = "createRobots" -> Target(FALSE, <<"app">>, "robots.ts")
    [] s = "createOptimizedNextConfig" -> Target(FALSE, <<>>, "next.config.ts")
    [] s = "createInstrumentation" -> Target(FALSE, <<"app">>, "instrumentation.ts")
    [] s = "createSuspenseWrapper" -> Target(FALSE, <<"components">>, "suspense-wrapper.tsx")
    [] s = "createStreamingLayout" -> Target(FALSE, <<"components">>, "streaming-layout.tsx")
    [] s = "createOptimizedFonts" -> Target(TRUE, <<"lib">>, "fonts.ts")
    [] s = "updateMainPage" -> Target(FALSE, <<"app">>, "page.tsx")
    [] s = "createProxyMiddleware" -> Target(FALSE, <<>>, "middleware.ts")

\* variant: the about page written without its subdirectory
WriteTarget_AboutInApp(s) ==
  CASE s = "createThemeProvider" -> Target(TRUE, <<"components">>, "theme-provider.tsx")
    [] s = "updateRootLayout" -> Target(FALSE, <<"app">>, "layout.tsx")
    [] s = "createModeToggle" -> Target(FALSE, <<"components">>, "mode-toggle.tsx")
    [] s = "createMobileMenu" -> Target(TRUE, <<"components">>, "mobile-menu.tsx")
    [] s = "createHeaderComponent" -> Target(TRUE, <<"components">>, "header.tsx")
    [] s = "createFooterComponent" -> Target(TRUE, <<"components">>, "footer.tsx")
    [] s = "createHoverPrefetchLink" -> Target(TRUE, <<"components">>, "hover-prefetch-link.tsx")
    [] s = "createEnvFile" -> Target(FALSE, <<>>, ".env")
    [] s = "createAboutPage" -> Target(TRUE, <<"app">>, "page.tsx")
    [] s = "createContactPage" -> Target(TRUE, <<"app", "contact">>, "page.tsx")
    [] s = "createPrivacyPage" -> Target(TRUE, <<"app", "privacy">>, "page.tsx")
    [] s = "createTermsPage" -> Target(TRUE, <<"app", "terms">>, "page.tsx")
    [] s = "createGetStartedPage" -> Target(TRUE, <<"app", "get-started">>, "page.tsx")
    [] s = "createDocsPage" -> Target(TRUE, <<"app", "docs">>, "page.tsx")
    [] s = "createNotFoundPage" -> Target(FALSE, <<"app">>, "not-found.tsx")
    [] s = "createErrorPage" -> Target(FALSE, <<"app">>, "error.tsx")
    [] s = "createLoadingPage" -> Target(FALSE, <<"app">>, "loading.tsx")
    [] s = "createSitemap" -> Target(FALSE, <<"app">>, "sitemap.ts")
    [] s = "createRobots" -> Target(FALSE, <<"app">>, "robots.ts")
    [] s = "createOptimizedNextConfig" -> Target(FALSE, <<>>, "next.config.ts")
    [] s = "createInstrumentation" -> Target(FALSE, <<"app">>, "instrumentation.ts")
    [] s = "createSuspenseWrapper" -> Target(FALSE, <<"components">>, "suspense-wrapper.tsx")
    [] s = "createStreamingLayout" -> Target(FALSE, <<"components">>, "streaming-layout.tsx")
    [] s = "createOptimizedFonts" -> Target(TRUE, <<"lib">>, "fonts.ts")
    [] s = "updateMainPage" -> Target(FALSE, <<"app">>, "page.tsx")
    [] s = "createProxyMiddleware" -> Target(FALSE, <<>>, "proxy.ts")

WriteTarget(s) ==
  CASE s = "createThemeProvider" -> Target(TRUE, <<"components">>, "theme-provider.tsx")
    [] s = "updateRootLayout" -> Target(FALSE, <<"app">>, "layout.tsx")
    [] s = "createModeToggle" -> Target(FALSE, <<"components">>, "mode-toggle.tsx")
    [] s = "createMobileMenu" -> Target(TRUE, <<"components">>, "mobile-menu.tsx")
    [] s = "createHeaderComponent" -> Target(TRUE, <<"components">>, "header.tsx")
    [] s = "createFooterComponent" -> Target(TRUE, <<"components">>, "footer.tsx")
    [] s = "createHoverPrefetchLink" -> Target(TRUE, <<"components">>, "hover-prefetch-link.tsx")
    [] s = "createEnvFile" -> Target(FALSE, <<>>, ".env")
    [] s = "createAboutPage" -> Target(TRUE, <<"app", "about">>, "page.tsx")
    [] s = "createContactPage" -> Target(TRUE, <<"app", "contact">>, "page.tsx")
    [] s = "createPrivacyPage" -> Target(TRUE, <<"app", "privacy">>, "page.tsx")
    [] s = "createTermsPage" -> Target(TRUE, <<"app", "terms">>, "page.tsx")
    [] s = "createGetStartedPage" -> Target(TRUE, <<"app", "get-started">>, "page.tsx")
    [] s = "createDocsPage" -> Target(TRUE, <<"app", "docs">>, "page.tsx")
    [] s = "createNotFoundPage" -> Target(FALSE, <<"app">>, "not-found.tsx")
    [] s = "createErrorPage" -> Target(FALSE, <<"app">>, "error.tsx")
    [] s = "createLoadingPage" -> Target(FALSE, <<"app">>, "loading.tsx")
    [] s = "createSitemap" -> Target(FALSE, <<"app">>, "sitemap.ts")
    [] s = "createRobots" -> Target(FALSE, <<"app">>, "robots.ts")
    [] s = "createOptimizedNextConfig" -> Target(FALSE, <<>>, "next.config.ts")
    [] s = "createInstrumentation" -> Target(FALSE, <<"app">>, "instrumentation.ts")
    [] s = "createSuspenseWrapper" -> Target(FALSE, <<"components">>, "suspense-wrapper.tsx")
    [] s = "createStreamingLayout" -> Target(FALSE, <<"components">>, "streaming-layout.tsx")
    [] s = "createOptimizedFonts" -> Target(TRUE, <<"lib">>, "fonts.ts")
    [] s = "updateMainPage" -> Target(FALSE, <<"app">>, "page.tsx")
    [] s = "createProxyMiddleware" -> Target(FALSE, <<>>, "proxy.ts")

TargetPath(s) == Join(WriteTarget(s).dir, WriteTarget(s).file)

EnvKey == "NEXT_PUBLIC_APP_NAME="
EnvRest == "NEXT_PUBLIC_APP_DESCRIPTION=\"A Next.js 16 app with shadcn/ui pre-configured\"\n..."

\* variant: the name of the example instead of the argument
EnvContent_Fixed(name) == <<EnvKey>> \o MyApp \o <<"\n", EnvRest>>

\* envContent of createEnvFile, lines 506-516
EnvContent(name) == <<EnvKey>> \o name \o <<"\n", EnvRest>>

\* variant: the main page greets with the project name
TemplateOf_NameInPage(s, name) ==
  IF s = "createEnvFile" THEN EnvContent(name)
  ELSE IF s = "updateMainPage" THEN <<"template of", s>> \o name
  ELSE <<"template of", s>>

\* the template literal of every other function stands for itself
TemplateOf(s, name) ==
  IF s = "createEnvFile" THEN EnvContent(name) ELSE <<"template of", s>>

----------------------------------------------------------------------------
(* updateRootLayout, lines 187-221.  The layout text is a sequence of      *)
(* fragments; markers, anchors, tag openers and the closing ">" of a tag   *)
(* are fragments of their own, and no other fragment contains ">".         *)

CssImport == "import \"./globals.css\";"
\* the unescaped dots of /import ".\/globals.css";/ match any character
CssImportAlt == "import \"a/globals.css\";"
CssAnchors == {CssImport, CssImportAlt}

Marker1 == "from \"@/components/theme-provider\""
Marker2 == "<ThemeProvider"
Marker3 == "suppressHydrationWarning"

\* fragments that end an opening tag for [^>]*>
GtTokens == {">", "</body>", "</html>"}

Whitespace == {" ", "\n"}

\* layoutContent.includes(m)
TextIncludes(c, m) == \E i \in 1..Len(c) : c[i] = m

\* least index i >= from with c[i] in S, 0 when there is none
FirstIdx(c, from, S) ==
  LET I == {i \in from..Len(c) : c[i] \in S}
  IN IF I = {} THEN 0 ELSE CHOOSE i \in I : \A j \in I : i <= j

ReplaceRange(c, i, j, r) == SubSeq(c, 1, i - 1) \o r \o SubSeq(c, j + 1, Len(c))

\* String.prototype.trim
RECURSIVE TrimLeft(_)
TrimLeft(b) ==
  IF b # <<>> /\ Head(b) \in Whitespace THEN TrimLeft(Tail(b)) ELSE b

RECURSIVE TrimRight(_)
TrimRight(b) ==
  IF b # <<>> /\ b[Len(b)] \in Whitespace
  THEN TrimRight(SubSeq(b, 1, Len(b) - 1)) ELSE b

Trim(b) == TrimRight(TrimLeft(b))

\* the replacement text of line 195
ImportReplacement ==
  <<CssImport,
    "\nimport { inter } from \"@/lib/fonts\";\nimport { ThemeProvider } ",
    Marker1,
    ";\nimport { Header } from \"@/components/header\";\nimport { Footer } from \"@/components/footer\";">>

\* variant: the import substitution without its guard
PatchImport_Unguarded(c) ==
  LET i == FirstIdx(c, 1, CssAnchors)
  IN IF i = 0 THEN c ELSE ReplaceRange(c, i, i, ImportReplacement)

\* lines 192-197
PatchImport(c) ==
  IF TextIncludes(c, Marker1) THEN c
  ELSE LET i == FirstIdx(c, 1, CssAnchors)
       IN IF i = 0 THEN c ELSE ReplaceRange(c, i, i, ImportReplacement)

\* the template literal of line 206 around bodyContent.trim()
Wrapper(b) ==
  <<"\n          ", Marker2,
    "\n            attribute=\"class\" defaultTheme=\"system\" enableSystem disableTransitionOnChange [div] [Header] [main]\n                ">>
  \o Trim(b)
  \o <<"\n              [/main] [Footer] [/div] [/ThemeProvider]">>

\* the substitution patterns of a replacement string: dollar-dollar, dollar-ampersand,
\* dollar-backquote and dollar-quote (a backquote is written ^ in the fragments)
RECURSIVE ExpandDollar(_, _, _, _)
ExpandDollar(r, matched, before, after) ==
  IF r = <<>> THEN <<>>
  ELSE (CASE Head(r) = "$$" -> <<"$">>
          [] Head(r) = "$&" -> matched
          [] Head(r) = "$^" -> before
          [] Head(r) = "$'" -> after
          [] OTHER -> <<Head(r)>>)
       \o ExpandDollar(Tail(r), matched, before, after)

\* m.replace(pat, r) with a string pattern: the first occurrence of pat in m
ReplaceFirstOcc(m, pat, r) ==
  LET P == {p \in 1..(Len(m) - Len(pat) + 1) : SubSeq(m, p, p + Len(pat) - 1) = pat}
      p == CHOOSE q \in P : \A q2 \in P : q <= q2
  IN IF P = {} THEN m
     ELSE SubSeq(m, 1, p - 1)
          \o ExpandDollar(r, pat, SubSeq(m, 1, p - 1), SubSeq(m, p + Len(pat), Len(m)))
          \o SubSeq(m, p + Len(pat), Len(m))

\* the match of /<body[^>]*>([\s\S]*?)<\/body>/ : from = 0 when there is none
BodyMatch(c) ==
  LET i == FirstIdx(c, 1, {"<body"})
      j == IF i = 0 THEN 0 ELSE FirstIdx(c, i + 1, GtTokens)
      k == IF j = 0 THEN 0 ELSE FirstIdx(c, j + 1, {"</body>"})
  IN IF k = 0 THEN [from |-> 0, open |-> 0, to |-> 0]
     ELSE [from |-> i, open |-> j, to |-> k]

\* variant: the body wrapping without its guard
PatchBody_Unguarded(c) ==
  LET bm == BodyMatch(c)
      m == SubSeq(c, bm.from, bm.to)
      b == SubSeq(c, bm.open + 1, bm.to - 1)
  IN IF bm.from = 0 THEN c
     ELSE ReplaceRange(c, bm.from, bm.to, ReplaceFirstOcc(m, b, Wrapper(b)))

\* lines 200-210
PatchBody(c) ==
  IF TextIncludes(c, Marker2) THEN c
  ELSE LET bm == BodyMatch(c)
           m == SubSeq(c, bm.from, bm.to)
           b == SubSeq(c, bm.open + 1, bm.to - 1)
       IN IF bm.from = 0 THEN c
          ELSE ReplaceRange(c, bm.from, bm.to, ReplaceFirstOcc(m, b, Wrapper(b)))

\* the replacement text of line 216 (backquotes written ^)
HtmlReplacement ==
  <<"<html", " lang=\"en\" ", Marker3, " className={^${inter.variable} antialiased^}", ">">>

\* variant: without an html tag to replace, the new tag is put in front
PatchHtml_Prepend(c) ==
  IF TextIncludes(c, Marker3) THEN c
  ELSE LET i == FirstIdx(c, 1, {"<html"})
           j == IF i = 0 THEN 0 ELSE FirstIdx(c, i + 1, GtTokens)
       IN IF j = 0 THEN HtmlReplacement \o c ELSE ReplaceRange(c, i, j, HtmlReplacement)

\* lines 213-218
PatchHtml(c) ==
  IF TextIncludes(c, Marker3) THEN c
  ELSE LET i == FirstIdx(c, 1, {"<html"})
           j == IF i = 0 THEN 0 ELSE FirstIdx(c, i + 1, GtTokens)
       IN IF j = 0 THEN c ELSE ReplaceRange(c, i, j, HtmlReplacement)

\* variant: one guard in front of the three substitutions
PatchLayout_SharedGuard(c) ==
  IF TextIncludes(c, Marker1) THEN c ELSE PatchHtml(PatchBody(PatchImport(c)))

\* lines 191-218: the three substitutions in the order of the code
PatchLayout(c) == PatchHtml(PatchBody(PatchImport(c)))

----------------------------------------------------------------------------
(* One file step as a function of the disk: the result says whether the    *)
(* function returned or threw, and what the disk looks like afterwards.    *)

Result(ok, d, f) == [ok |-> ok, dirs |-> d, files |-> f, err |-> "none"]

\* the function threw: err names the call that rejected
Thrown(err, d, f) == [ok |-> FALSE, dirs |-> d, files |-> f, err |-> err]

\* a template-writing function: mkdir (where the code has one), then writeFile
TemplateStep(s, name, c, d, f, fault) ==
  LET t == WriteTarget(s)
      rel == Join(t.dir, t.file)
      mkThrows == t.mk /\ (fault = "mkdir" \/ MkdirRejects(c, d, f, t.dir))
      d1 == IF t.mk THEN MkdirP(c, d, t.dir) ELSE d
  IN IF mkThrows THEN Thrown("mkdir", d, f)
     ELSE IF WriteRejects(c, d1, f, rel) \/ fault = "write" THEN Thrown("writeFile", d1, f)
     ELSE IF fault = "writeTrunc" THEN Thrown("writeFile", d1, WriteFile(f, <<c, rel>>, <<>>))
     ELSE Result(TRUE, d1, WriteFile(f, <<c, rel>>, TemplateOf(s, name)))

\* variant: a substitution that changes nothing throws
UpdateRootLayout_ThrowOnNoMatch(c, d, f, fault) ==
  LET rel == TargetPath("updateRootLayout")
  IN IF ReadRejects(c, f, rel) \/ fault = "read" THEN Thrown("readFile", d, f)
     ELSE IF PatchImport(f[<<c, rel>>]) = f[<<c, rel>>]
             \/ PatchBody(f[<<c, rel>>]) = f[<<c, rel>>]
             \/ PatchHtml(f[<<c, rel>>]) = f[<<c, rel>>] THEN Thrown("no match", d, f)
     ELSE IF WriteRejects(c, d, f, rel) \/ fault = "write" THEN Thrown("writeFile", d, f)
     ELSE IF fault = "writeTrunc" THEN Thrown("writeFile", d, WriteFile(f, <<c, rel>>, <<>>))
     ELSE Result(TRUE, d, WriteFile(f, <<c, rel>>, PatchLayout(f[<<c, rel>>])))

\* updateRootLayout, lines 187-221: readFile, the three substitutions, writeFile
UpdateRootLayout(c, d, f, fault) ==
  LET rel == TargetPath("updateRootLayout")
  IN IF ReadRejects(c, f, rel) \/ fault = "read" THEN Thrown("readFile", d, f)
     ELSE IF WriteRejects(c, d, f, rel) \/ fault = "write" THEN Thrown("writeFile", d, f)
     ELSE IF fault = "writeTrunc" THEN Thrown("writeFile", d, WriteFile(f, <<c, rel>>, <<>>))
     ELSE Result(TRUE, d, WriteFile(f, <<c, rel>>, PatchLayout(f[<<c, rel>>])))

RunStep(s, name, c, d, f, fault) ==
  IF s = "updateRootLayout" THEN UpdateRootLayout(c, d, f, fault)
  ELSE TemplateStep(s, name, c, d, f, fault)

\* the faults that can occur in step s
StepFaults(s) ==
  {"none", "write", "writeTrunc"}
  \cup (IF s = "updateRootLayout" THEN {"read"} ELSE {})
  \cup (IF WriteTarget(s).mk THEN {"mkdir"} ELSE {})

----------------------------------------------------------------------------
(* What the scaffolder may leave in app/layout.tsx.                        *)

StdLayout ==
  <<"import type { Metadata } from \"next\";\n", CssImport, "\n",
    "<html", " lang=\"en\"", ">", "\n",
    "<body", " className=\"antialiased\"", ">", "\n", "{children}", "\n", "</body>",
    "\n", "</html>", "\n">>

NoAnchorLayout == <<"export default function RootLayout() { return null }">>

\* a layout with the css import and the html tag but no body element
NoBodyLayout ==
  <<CssImport, "\n", "<html", " lang=\"en\"", ">", "{children}", "</html>", "\n">>

ScaffoldLayouts == {StdLayout, NoAnchorLayout, NoBodyLayout, PatchLayout(StdLayout)}

ScaffoldPage == <<"page.tsx of create-next-app">>
ScaffoldConfig == <<"next.config.ts of create-next-app">>

EmptyFiles == [p \in {} |-> <<>>]

----------------------------------------------------------------------------
(* The run of main().                                                      *)

Event(s, ev, arg) == [step |-> s, ev |-> ev, arg |-> arg]

Stdout(text) == [stream |-> "stdout", text |-> text]
Stderr(text) == [stream |-> "stderr", text |-> text]

HelpText == <<"Usage: create-geo-app <project-name>">>
UsageError == <<"Please provide a project name:">>
FormatError ==
  <<"Error: Project name must contain only lowercase letters, numbers, and hyphens">>
SetupError ==
  <<"Error during setup:", "Please check your internet connection and try again.">>
SuccessText(name) == <<"Setup complete! To start developing:", "cd ">> \o name

Init ==
  /\ argv \in ArgvInputs
  /\ pc = "main"
  /\ running = "none"
  /\ cwd = <<>>
  /\ dirs = {<<<<>>, <<>>>>}
  /\ files = EmptyFiles
  /\ trace = <<>>
  /\ out = <<>>
  /\ exitCode = -1

\* variant: the format check in front of the missing-name check
ArgOutcome_FormatFirst(av) ==
  IF HasHelpFlag(av) THEN "help"
  ELSE IF ~ValidName(ProjectNameOf(av)) THEN "format"
  ELSE IF IsMissing(ProjectNameOf(av)) THEN "usage"
  ELSE "run"

\* lines 7-37: which way the argument checks send the run
ArgOutcome(av) ==
  IF HasHelpFlag(av) THEN "help"
  ELSE IF IsMissing(ProjectNameOf(av)) THEN "usage"
  ELSE IF ~ValidName(ProjectNameOf(av)) THEN "format"
  ELSE "run"

ParseArgs ==
  /\ pc = "main"
  /\ LET o == ArgOutcome(argv)
     IN /\ out' = (CASE o = "help" -> Append(out, Stdout(HelpText))
                     [] o = "usage" -> Append(out, Stderr(UsageError))
                     [] o = "format" -> Append(out, Stderr(FormatError))
                     [] OTHER -> out)
        /\ exitCode' = (CASE o = "help" -> 0
                          [] o = "usage" -> 1
                          [] o = "format" -> 1
                          [] OTHER -> exitCode)
        /\ pc' = IF o = "run" THEN StepOrder[1] ELSE "exited"
  /\ UNCHANGED <<argv, running, cwd, dirs, files, trace>>

\* the packages of the two npm install calls, lines 82 and 86
NpmPackages(s) ==
  CASE s = "npmNextThemes" -> <<"next-themes">>
    [] s = "npmThirdParties" -> <<"@next/third-parties@latest", "sharp">>
    [] OTHER -> <<>>

\* variant: the scaffolder and chdir get a fixed directory name
StepArg_DefaultName(s) ==
  IF s \in {"createNextApp", "chdir"} THEN MyApp ELSE NpmPackages(s)

\* the name handed to the scaffolder and to chdir, the packages handed to npm
\* install; nothing for the other steps
StepArg(s) ==
  IF s \in {"createNextApp", "chdir"} THEN ProjectNameOf(argv) ELSE NpmPackages(s)

\* variant: the call is issued without await, main() goes on at once
StartStep_NoAwait(s) ==
  /\ pc = s
  /\ s \in AwaitedSteps
  /\ running' = s
  /\ pc' = NextStep(s)
  /\ trace' = Append(trace, Event(s, "start", StepArg(s)))
  /\ UNCHANGED <<argv, cwd, dirs, files, out, exitCode>>

\* an awaited call is issued: execa(...), setTimeout, or one of the file functions
StartStep(s) ==
  /\ pc = s
  /\ s \in AwaitedSteps
  /\ running = "none"
  /\ running' = s
  /\ trace' = Append(trace, Event(s, "start", StepArg(s)))
  /\ UNCHANGED <<argv, pc, cwd, dirs, files, out, exitCode>>

\* what create-next-app leaves on disk when it exits 0: the project directory
\* with app/, and app/layout.tsx in one of the shapes (or no layout file)
ScaffoldOk(name, hasLayout, lay) ==
  /\ dirs' = dirs \cup {<<name, <<>>>>, <<name, <<"app">>>>}
  /\ files' =
       LET f1 == WriteFile(files, <<name, <<"app", "page.tsx">>>>, ScaffoldPage)
           f2 == WriteFile(f1, <<name, <<"next.config.ts">>>>, ScaffoldConfig)
       IN IF hasLayout THEN WriteFile(f2, <<name, <<"app", "layout.tsx">>>>, lay) ELSE f2

\* what shadcn add --all leaves on disk when it exits 0, as far as the file
\* functions can tell: the components directory, or nothing of it
AddAllOk(made) ==
  /\ dirs' = IF made THEN dirs \cup {<<cwd, <<"components">>>>} ELSE dirs
  /\ UNCHANGED files

\* the child process of lines 42-53, 60-66, 73-78, 82 or 86 exits
SubprocessExit(s) ==
  /\ running = s
  /\ s \in SubprocessSteps
  /\ running' = "none"
  /\ \/ /\ CASE s = "createNextApp" ->
                  \E hasLayout \in BOOLEAN, lay \in ScaffoldLayouts :
                    ScaffoldOk(ProjectNameOf(argv), hasLayout, lay)
             [] s = "shadcnAddAll" -> \E made \in BOOLEAN : AddAllOk(made)
             [] OTHER -> UNCHANGED <<dirs, files>>
        /\ pc' = NextStep(s)
        /\ trace' = Append(trace, Event(s, "ok", StepArg(s)))
     \/ /\ IF s = "createNextApp"
           THEN \E made \in BOOLEAN :
                  dirs' = IF made THEN dirs \cup {<<ProjectNameOf(argv), <<>>>>} ELSE dirs
           ELSE UNCHANGED dirs
        /\ UNCHANGED files
        /\ pc' = OnFailure(s)
        /\ trace' = Append(trace, Event(s, "fail", StepArg(s)))
  /\ UNCHANGED <<argv, cwd, out, exitCode>>

\* variant: the promise of the delay is never resolved
DelayElapsed_Never ==
  /\ running = "delay"
  /\ running' = "delay"
  /\ UNCHANGED <<argv, pc, cwd, dirs, files, trace, out, exitCode>>

\* line 69: the timer of the fixed delay fires
DelayElapsed ==
  /\ running = "delay"
  /\ running' = "none"
  /\ pc' = NextStep("delay")
  /\ trace' = Append(trace, Event("delay", "ok", <<>>))
  /\ UNCHANGED <<argv, cwd, dirs, files, out, exitCode>>

\* variant: the run goes on without entering the project directory
Chdir_Stay ==
  /\ pc = "chdir"
  /\ running = "none"
  /\ pc' = NextStep("chdir")
  /\ trace' = Append(trace, Event("chdir", "ok", StepArg("chdir")))
  /\ UNCHANGED <<argv, running, cwd, dirs, files, out, exitCode>>

\* line 56: process.chdir(projectName), synchronous; throws when the directory
\* is missing or cannot be entered
Chdir ==
  /\ pc = "chdir"
  /\ running = "none"
  /\ \E denied \in BOOLEAN :
       IF ~denied /\ cwd = <<>> /\ <<ProjectNameOf(argv), <<>>>> \in dirs
       THEN /\ cwd' = ProjectNameOf(argv)
            /\ pc' = NextStep("chdir")
            /\ trace' = Append(trace, Event("chdir", "ok", StepArg("chdir")))
       ELSE /\ cwd' = cwd
            /\ pc' = OnFailure("chdir")
            /\ trace' = Append(trace, Event("chdir", "fail", StepArg("chdir")))
  /\ UNCHANGED <<argv, running, dirs, files, out, exitCode>>

\* the event of a file function that returned, or threw with error r.err
Settled(s, r) == IF r.ok THEN Event(s, "ok", <<>>) ELSE Event(s, "fail", <<r.err>>)

\* file function s settles, with the file system behaving as fault says
FileStepSettles(s, fault) ==
  /\ running = s
  /\ s \in WriteSteps
  /\ fault \in StepFaults(s)
  /\ running' = "none"
  /\ LET r == RunStep(s, ProjectNameOf(argv), cwd, dirs, files, fault)
     IN /\ dirs' = r.dirs
        /\ files' = r.files
        /\ pc' = IF r.ok THEN NextStep(s) ELSE OnFailure(s)
        /\ trace' = Append(trace, Settled(s, r))
  /\ UNCHANGED <<argv, cwd, out, exitCode>>

\* one of the file functions of lines 90-154 settles
FileStepDone(s) == \E fault \in StepFaults(s) : FileStepSettles(s, fault)

\* lines 156-159
PrintSuccess ==
  /\ pc = "success"
  /\ running = "none"
  /\ out' = Append(out, Stdout(SuccessText(ProjectNameOf(argv))))
  /\ pc' = "returned"
  /\ UNCHANGED <<argv, running, cwd, dirs, files, trace, exitCode>>

\* main() has returned and nothing is pending: the process ends with code 0
NaturalExit ==
  /\ pc = "returned"
  /\ exitCode' = 0
  /\ pc' = "exited"
  /\ UNCHANGED <<argv, running, cwd, dirs, files, trace, out>>

\* variant: the catch clause removes what the run created
Catch_Rollback ==
  /\ pc = "catch"
  /\ out' = Append(out, Stderr(SetupError))
  /\ exitCode' = 1
  /\ pc' = "exited"
  /\ dirs' = {<<<<>>, <<>>>>}
  /\ files' = EmptyFiles
  /\ UNCHANGED <<argv, running, cwd, trace>>

\* variant: the catch clause goes back to the starting directory
Catch_RestoreCwd ==
  /\ pc = "catch"
  /\ out' = Append(out, Stderr(SetupError))
  /\ exitCode' = 1
  /\ pc' = "exited"
  /\ cwd' = <<>>
  /\ UNCHANGED <<argv, running, dirs, files, trace>>

\* lines 161-165: the catch clause
Catch ==
  /\ pc = "catch"
  /\ out' = Append(out, Stderr(SetupError))
  /\ exitCode' = 1
  /\ pc' = "exited"
  /\ UNCHANGED <<argv, running, cwd, dirs, files, trace>>

Next ==
  \/ ParseArgs
  \/ \E s \in AwaitedSteps : StartStep(s)
  \/ \E s \in SubprocessSteps : SubprocessExit(s)
  \/ DelayElapsed
  \/ Chdir
  \/ \E s \in WriteSteps : FileStepDone(s)
  \/ PrintSuccess
  \/ NaturalExit
  \/ Catch

Spec == Init /\ [][Next]_vars

\* the run under the event loop: a continuation that is ready is run, a timer
\* that is due fires, and every child process started eventually exits
\* (a pending file function settles one way or another: its fairness is stated
\* on the branches that are enabled whenever the function is pending, which
\* is weak fairness of the whole action, since any settling ends the pending)
Fairness ==
  /\ WF_vars(ParseArgs)
  /\ WF_vars(\E s \in AwaitedSteps : StartStep(s))
  /\ WF_vars(\E s \in SubprocessSteps : SubprocessExit(s))
  /\ WF_vars(DelayElapsed)
  /\ WF_vars(Chdir)
  /\ WF_vars(\E s \in WriteSteps : FileStepSettles(s, "write"))
  /\ WF_vars(PrintSuccess)
  /\ WF_vars(NaturalExit)
  /\ WF_vars(Catch)

SpecLive == Init /\ [][Next]_vars /\ Fairness

----------------------------------------------------------------------------
(* One file function called repeatedly on a project directory in an        *)
(* arbitrary state: pc names the function, trace records the calls.        *)

HarnessNames == {MyApp, <<"a">>}
HarnessDirs == {<<"app">>, <<"components">>}

\* a layout patched by hand: all three markers, anchors still present
HandPatched ==
  <<CssImport, "\nimport { ThemeProvider } ", Marker1, ";\n",
    "<html", " lang=\"fr\" ", Marker3, ">",
    "<body", ">", Marker2, ">", "{children}", "[/ThemeProvider]", "</body>", "</html>">>

\* a layout whose html tag was marked by hand, nothing else patched
OnlyHtmlMarked ==
  <<CssImport, "\n", "<html", " lang=\"fr\" ", Marker3, ">",
    "<body", ">", "{children}", "</body>", "</html>">>

\* a layout whose body element is empty
EmptyBodyLayout ==
  <<CssImport, "\n", "<html", " lang=\"en\"", ">", "<body", ">", "</body>", "</html>">>

\* a layout whose body content is a text that also stands in the body tag
AttrEchoLayout ==
  <<CssImport, "\n", "<html", " lang=\"en\"", ">",
    "<body", " className=\"", "dark", "\"", ">", "dark", "</body>", "</html>">>

\* a layout whose body content has a dollar-ampersand in it
DollarLayout ==
  <<CssImport, "\n", "<html", " lang=\"en\"", ">",
    "<body", ">", "\n", "{children}", "$&", "\n", "</body>", "</html>">>

LayoutInputs ==
  ScaffoldLayouts
  \cup {HandPatched, OnlyHtmlMarked, PatchImport(StdLayout), PatchBody(StdLayout),
        EmptyBodyLayout, AttrEchoLayout, DollarLayout}

OldContent == <<"previous content">>

InitStep ==
  /\ \E n \in HarnessNames, s \in WriteSteps, ds \in SUBSET HarnessDirs,
        hasLayout \in BOOLEAN, lay \in LayoutInputs, old \in BOOLEAN :
       /\ argv = <<NodePath, ScriptPath, n>>
       /\ pc = s
       /\ cwd = n
       /\ dirs = {<<<<>>, <<>>>>, <<n, <<>>>>} \cup {<<n, x>> : x \in ds}
       /\ files =
            LET f0 == IF hasLayout /\ <<"app">> \in ds
                      THEN WriteFile(EmptyFiles, <<n, <<"app", "layout.tsx">>>>, lay)
                      ELSE EmptyFiles
            IN IF old /\ s # "updateRootLayout" /\ <<n, WriteTarget(s).dir>> \in dirs
               THEN WriteFile(f0, <<n, TargetPath(s)>>, OldContent)
               ELSE f0
  /\ running = "harness"
  /\ trace = <<>>
  /\ out = <<>>
  /\ exitCode = -1

HarnessRun ==
  /\ running = "harness"
  /\ Len(trace) < MaxRuns
  /\ \E fault \in StepFaults(pc) :
       LET r == RunStep(pc, ProjectNameOf(argv), cwd, dirs, files, fault)
       IN /\ dirs' = r.dirs
          /\ files' = r.files
          /\ trace' = Append(trace, Settled(pc, r))
  /\ UNCHANGED <<argv, pc, running, cwd, out, exitCode>>

SpecStep == InitStep /\ [][HarnessRun]_vars

----------------------------------------------------------------------------
(* The file functions called once each in an arbitrary order, on the disk  *)
(* the package installs leave behind: trace records the calls made so far. *)

\* the functions that are permuted: one that creates components/, one that
\* relies on it, the layout patch, a root file and the main-page rewrite
PermSteps ==
  {"createThemeProvider", "createModeToggle", "updateRootLayout", "createEnvFile",
   "updateMainPage"}

Called == {trace[i].step : i \in 1..Len(trace)}

InitPerm ==
  /\ \E lay \in ScaffoldLayouts, made \in BOOLEAN :
       /\ dirs = {<<<<>>, <<>>>>, <<MyApp, <<>>>>, <<MyApp, <<"app">>>>}
                 \cup (IF made THEN {<<MyApp, <<"components">>>>} ELSE {})
       /\ files =
            WriteFile(WriteFile(WriteFile(EmptyFiles,
                <<MyApp, <<"app", "page.tsx">>>>, ScaffoldPage),
                <<MyApp, <<"next.config.ts">>>>, ScaffoldConfig),
                <<MyApp, <<"app", "layout.tsx">>>>, lay)
  /\ argv = <<NodePath, ScriptPath, MyApp>>
  /\ cwd = MyApp
  /\ pc = "permutation"
  /\ running = "permutation"
  /\ trace = <<>>
  /\ out = <<>>
  /\ exitCode = -1

PermRun ==
  /\ running = "permutation"
  /\ \E s \in PermSteps \ Called :
       LET r == RunStep(s, ProjectNameOf(argv), cwd, dirs, files, "none")
       IN /\ dirs' = r.dirs
          /\ files' = r.files
          /\ trace' = Append(trace, Settled(s, r))
  /\ UNCHANGED <<argv, pc, running, cwd, out, exitCode>>

SpecPerm == InitPerm /\ [][PermRun]_vars

----------------------------------------------------------------------------
(* The other variant of the tool, src/unnamed/part_000 (create-bas-app):   *)
(* the same argument checks and the same catch clause around scaffolder,   *)
(* chdir, shadcn init, delay and shadcn add --all, and nothing after them. *)
(* argv[2] tells which of the two scripts is running.                      *)

VariantPath == <<"/", "p", "a", "r", "t", "_", "0", "0", "0">>

VariantArgv == {[av EXCEPT ![2] = VariantPath] : av \in ArgvInputs}

VariantOrder == <<"createNextApp", "chdir", "shadcnInit", "delay", "shadcnAddAll">>
VariantSteps == {VariantOrder[i] : i \in 1..Len(VariantOrder)}

VariantIndex(s) == CHOOSE i \in 1..Len(VariantOrder) : VariantOrder[i] = s

\* variant: add-all directly after init, without the delay of part_000 line 67
VariantNextStep_NoDelay(s) ==
  IF s = "shadcnInit" THEN "shadcnAddAll"
  ELSE IF VariantIndex(s) < Len(VariantOrder)
  THEN VariantOrder[VariantIndex(s) + 1] ELSE "success"

\* the statement that follows step s inside the try block of part_000
VariantNextStep(s) ==
  IF VariantIndex(s) < Len(VariantOrder)
  THEN VariantOrder[VariantIndex(s) + 1] ELSE "success"

VariantHelpText == <<"Usage: create-bas-app <project-name>">>

InitVariant ==
  /\ argv \in VariantArgv
  /\ pc = "main"
  /\ running = "none"
  /\ cwd = <<>>
  /\ dirs = {<<<<>>, <<>>>>}
  /\ files = EmptyFiles
  /\ trace = <<>>
  /\ out = <<>>
  /\ exitCode = -1

\* part_000 lines 5-34: the three argument checks
VariantParseArgs ==
  /\ pc = "main"
  /\ LET o == ArgOutcome(argv)
     IN /\ out' = (CASE o = "help" -> Append(out, Stdout(VariantHelpText))
                     [] o = "usage" -> Append(out, Stderr(UsageError))
                     [] o = "format" -> Append(out, Stderr(FormatError))
                     [] OTHER -> out)
        /\ exitCode' = (CASE o = "help" -> 0
                          [] o = "usage" -> 1
                          [] o = "format" -> 1
                          [] OTHER -> exitCode)
        /\ pc' = IF o = "run" THEN VariantOrder[1] ELSE "exited"
  /\ UNCHANGED <<argv, running, cwd, dirs, files, trace>>

\* what create-next-app --src-dir leaves on disk when it exits 0
VariantScaffoldOk(name, hasLayout, lay) ==
  /\ dirs' = dirs \cup {<<name, <<>>>>, <<name, <<"src">>>>, <<name, <<"src", "app">>>>}
  /\ files' =
       LET f1 == WriteFile(files, <<name, <<"src", "app", "page.tsx">>>>, ScaffoldPage)
           f2 == WriteFile(f1, <<name, <<"next.config.ts">>>>, ScaffoldConfig)
       IN IF hasLayout
          THEN WriteFile(f2, <<name, <<"src", "app", "layout.tsx">>>>, lay) ELSE f2

\* the child process of part_000 lines 39-51, 58-64 or 71-76 exits
VariantExit(s) ==
  /\ running = s
  /\ s \in VariantSteps \cap SubprocessSteps
  /\ running' = "none"
  /\ \/ /\ CASE s = "createNextApp" ->
                  \E hasLayout \in BOOLEAN, lay \in ScaffoldLayouts :
                    VariantScaffoldOk(ProjectNameOf(argv), hasLayout, lay)
             [] s = "shadcnAddAll" ->
                  /\ \E made \in BOOLEAN :
                       dirs' = IF made THEN dirs \cup {<<cwd, <<"src", "components">>>>}
                               ELSE dirs
                  /\ UNCHANGED files
             [] OTHER -> UNCHANGED <<dirs, files>>
        /\ pc' = VariantNextStep(s)
        /\ trace' = Append(trace, Event(s, "ok", StepArg(s)))
     \/ /\ IF s = "createNextApp"
           THEN \E made \in BOOLEAN :
                  dirs' = IF made THEN dirs \cup {<<ProjectNameOf(argv), <<>>>>} ELSE dirs
           ELSE UNCHANGED dirs
        /\ UNCHANGED files
        /\ pc' = OnFailure(s)
        /\ trace' = Append(trace, Event(s, "fail", StepArg(s)))
  /\ UNCHANGED <<argv, cwd, out, exitCode>>

\* part_000: its chdir (line 54), delay (line 67), success messages (lines
\* 78-81), catch clause (lines 83-87) and the issue of its awaited calls are
\* the statements of index.js
NextVariant ==
  \/ VariantParseArgs
  \/ \E s \in VariantSteps \cap AwaitedSteps : StartStep(s)
  \/ \E s \in VariantSteps \cap SubprocessSteps : VariantExit(s)
  \/ DelayElapsed
  \/ Chdir
  \/ PrintSuccess
  \/ NaturalExit
  \/ Catch

\* either of the two scripts is started
SpecBoth ==
  /\ Init \/ InitVariant
  /\ [][\/ argv[2] = ScriptPath /\ Next
        \/ argv[2] = VariantPath /\ NextVariant]_vars

----------------------------------------------------------------------------
(* Properties.                                                             *)

\* the argument after the script path, when there is one
NameGiven == Len(argv) >= 3 /\ argv[3] # <<>>
TheName == argv[3]

HelpRequested == \E i \in 1..Len(argv) : argv[i] \in {HelpLong, HelpShort}

\* ^[a-z0-9-]+$ spelled out on the characters of the name
MatchesPattern(n) ==
  /\ n # <<>>
  /\ \A i \in 1..Len(n) :
       n[i] \in {"a", "b", "c", "d", "e", "f", "g", "h", "i", "j", "k", "l", "m",
                 "n", "o", "p", "q", "r", "s", "t", "u", "v", "w", "x", "y", "z",
                 "0", "1", "2", "3", "4", "5", "6", "7", "8", "9", "-"}

\* nothing has been done yet: no subprocess, no chdir, nothing on disk
NoSideEffect ==
  /\ trace = <<>>
  /\ cwd = <<>>
  /\ dirs = {<<<<>>, <<>>>>}
  /\ files = EmptyFiles

\* the run went past the argument checks
Accepted == trace # <<>> \/ pc \in AllSteps

Happened(s, ev) == \E i \in 1..Len(trace) : trace[i].step = s /\ trace[i].ev = ev

LastEvent == trace[Len(trace)]

SuccessPrinted ==
  \E i \in 1..Len(out) :
    /\ out[i].stream = "stdout"
    /\ \E k \in 1..Len(out[i].text) :
         /\ out[i].text[k] = "cd "
         /\ SubSeq(out[i].text, k + 1, Len(out[i].text)) = TheName

FormatRejected == \E i \in 1..Len(out) : out[i] = Stderr(FormatError)

\* C1 as stated: for every non-empty name, the validator lets the run pass only
\* when the name matches ^[a-z0-9-]+$ and rejects no name that matches, and for
\* every other non-empty name the run ends with exit code 1 and without any
\* side effect.
C1_AsStated ==
  (pc # "main" /\ NameGiven) =>
     /\ Accepted => MatchesPattern(TheName)
     /\ MatchesPattern(TheName) => ~FormatRejected
     /\ ~MatchesPattern(TheName) => (pc = "exited" /\ exitCode = 1 /\ NoSideEffect)

\* C1 amended: for every non-empty name in an argument vector without a help
\* flag, the run goes past validation exactly when the name matches
\* ^[a-z0-9-]+$, and for every other such name the run ends with exit code 1,
\* the format error and no side effect.
C1_NameValidation ==
  (pc # "main" /\ NameGiven /\ ~HelpRequested) =>
     /\ Accepted <=> MatchesPattern(TheName)
     /\ MatchesPattern(TheName) => ~FormatRejected
     /\ ~MatchesPattern(TheName) =>
          (pc = "exited" /\ exitCode = 1 /\ FormatRejected /\ NoSideEffect)

C1_Witness ==
  /\ NameGiven /\ TheName = MyAppBad /\ ~HelpRequested
  /\ pc = "exited" /\ exitCode = 1

\* C2: without a name (absent or empty) and without a help flag the run ends
\* with exit code 1 after the usage message, and nothing has been done.
C2_NoArguments ==
  (pc # "main" /\ ~NameGiven /\ ~HelpRequested) =>
     /\ pc = "exited" /\ exitCode = 1
     /\ out = <<Stderr(UsageError)>>
     /\ NoSideEffect

C2_Witness ==
  /\ Len(argv) >= 3 /\ argv[3] = <<>> /\ ~HelpRequested
  /\ pc = "exited" /\ exitCode = 1

\* C3: with --help or -h at any position the run ends with exit code 0 and
\* without any side effect, whatever the other arguments are.
C3_HelpAnywhere ==
  (pc # "main" /\ HelpRequested) =>
     (pc = "exited" /\ exitCode = 0 /\ NoSideEffect)

C3_Witness ==
  /\ Len(argv) = 4 /\ argv[3] = MyAppBad /\ argv[4] = HelpLong
  /\ pc = "exited" /\ exitCode = 0

\* the position of a step in the order the claim gives
Rank(s) ==
  CASE s = "createNextApp" -> 1
    [] s = "chdir" -> 2
    [] s = "shadcnInit" -> 3
    [] s = "delay" -> 4
    [] s = "shadcnAddAll" -> 5
    [] s \in {"npmNextThemes", "npmThirdParties"} -> 6
    [] OTHER -> 7

\* the steps that come before the file writes
BeforeWrites ==
  {"createNextApp", "chdir", "shadcnInit", "delay", "shadcnAddAll",
   "npmNextThemes", "npmThirdParties"}

\* C4: whenever a step starts or ends, every step of an earlier rank
\* (scaffolder, chdir, init, delay, add-all, package installs, file writes)
\* has succeeded before, and no step has failed before.
C4_FixedOrder ==
  \A j \in 1..Len(trace) :
    /\ \A t \in BeforeWrites :
         Rank(t) < Rank(trace[j].step) =>
           \E i \in 1..(j - 1) : trace[i].step = t /\ trace[i].ev = "ok"
    /\ \A i \in 1..(j - 1) : trace[i].ev # "fail"

C4_Witness ==
  /\ Happened("shadcnAddAll", "start")
  /\ Happened("createThemeProvider", "start")
  /\ pc = "exited" /\ exitCode = 0

\* C5: a failed step is the last thing the run does: nothing is started after
\* it, no step is started twice, and the run goes through the catch clause
\* to exit code 1 with the one setup-failure message.
C5_AbortOnFailure ==
  /\ \A i \in 1..Len(trace) : trace[i].ev = "fail" => i = Len(trace)
  /\ \A i, j \in 1..Len(trace) :
       (trace[i].step = trace[j].step /\ trace[i].ev = trace[j].ev) => i = j
  /\ (trace # <<>> /\ LastEvent.ev = "fail") =>
       /\ pc \in {"catch", "exited"}
       /\ running = "none"
       /\ pc = "exited" => (exitCode = 1 /\ out = <<Stderr(SetupError)>>)

C5_Witness ==
  /\ trace # <<>> /\ LastEvent = Event("updateRootLayout", "fail", <<"readFile">>)
  /\ Happened("createThemeProvider", "ok")
  /\ pc = "exited" /\ exitCode = 1

\* C6: when the run has ended with exit code 1 after a failed step, the project
\* directory the scaffolder created is still there, and so is the file of every
\* file step that completed, with the content that step wrote.
C6_NoRollback ==
  (pc = "exited" /\ exitCode = 1 /\ trace # <<>>) =>
     /\ Happened("createNextApp", "ok") =>
          {<<TheName, <<>>>>, <<TheName, <<"app">>>>} \subseteq dirs
     /\ \A s \in WriteSteps :
          Happened(s, "ok") =>
            /\ <<TheName, TargetPath(s)>> \in DOMAIN files
            /\ <<TheName, WriteTarget(s).dir>> \in dirs
            /\ s # "updateRootLayout" =>
                 files[<<TheName, TargetPath(s)>>] = TemplateOf(s, TheName)

C6_Witness ==
  /\ pc = "exited" /\ exitCode = 1
  /\ Happened("createEnvFile", "ok")
  /\ Happened("createAboutPage", "fail")

AllStepsOk == \A s \in AllSteps : Happened(s, "ok")

\* C7: a run that has ended printed the success message and has exit code 0
\* exactly when every step succeeded, and a run that printed the success
\* message never has exit code 1.
C7_SuccessIffAllSteps ==
  /\ pc = "exited" => ((SuccessPrinted /\ exitCode = 0) <=> AllStepsOk)
  /\ SuccessPrinted => (AllStepsOk /\ exitCode # 1)

C7_Witness == pc = "exited" /\ exitCode = 0 /\ SuccessPrinted /\ AllStepsOk

TemplateSteps == WriteSteps \ {"updateRootLayout"}

\* C8: a template-writing step that succeeds touches no file but its own, and
\* when it succeeds right after a successful run of the same step it leaves
\* the whole disk as it was.
C8_TemplateStepIdempotent ==
  [][(/\ running = "harness"
      /\ pc \in TemplateSteps
      /\ trace' # trace
      /\ trace'[Len(trace')].ev = "ok")
     => /\ DOMAIN files' = (DOMAIN files) \cup {<<cwd, TargetPath(pc)>>}
        /\ \A p \in DOMAIN files : p # <<cwd, TargetPath(pc)>> => files'[p] = files[p]
        /\ (trace # <<>> /\ LastEvent.ev = "ok") => (files' = files /\ dirs' = dirs)]_vars

C8_Witness ==
  /\ running = "harness" /\ pc = "createEnvFile"
  /\ Len(trace) = 2 /\ trace[1].ev = "ok" /\ trace[2].ev = "ok"
  /\ files[<<cwd, <<".env">>>>] # OldContent

AllMarkers(c) ==
  /\ \E i \in 1..Len(c) : c[i] = "from \"@/components/theme-provider\""
  /\ \E i \in 1..Len(c) : c[i] = "<ThemeProvider"
  /\ \E i \in 1..Len(c) : c[i] = "suppressHydrationWarning"

LayoutFile == <<cwd, <<"app", "layout.tsx">>>>

\* C9: the layout patch that succeeds on a layout containing the three guard
\* markers writes back the content it read.
C9_PatchedLayoutNoOp ==
  [][(/\ running = "harness"
      /\ pc = "updateRootLayout"
      /\ trace' # trace
      /\ trace'[Len(trace')].ev = "ok"
      /\ AllMarkers(files[LayoutFile]))
     => files' = files]_vars

C9_Witness ==
  /\ running = "harness" /\ pc = "updateRootLayout"
  /\ trace # <<>> /\ LastEvent.ev = "ok"
  /\ files[LayoutFile] = HandPatched

\* the text has the line NEXT_PUBLIC_APP_NAME=n
HasNameLine(c, n) ==
  \E i \in 1..Len(c) :
    /\ c[i] = "NEXT_PUBLIC_APP_NAME="
    /\ i = 1 \/ c[i - 1] = "\n"
    /\ i + Len(n) + 1 <= Len(c)
    /\ SubSeq(c, i + 1, i + Len(n)) = n
    /\ c[i + Len(n) + 1] = "\n"

\* C10: after a successful run .env in the project directory has the line
\* NEXT_PUBLIC_APP_NAME=n, n being the name given on the command line.
C10_EnvHasName ==
  (pc = "exited" /\ exitCode = 0 /\ Accepted) =>
     /\ <<TheName, <<".env">>>> \in DOMAIN files
     /\ HasNameLine(files[<<TheName, <<".env">>>>], TheName)

C10_Witness ==
  /\ pc = "exited" /\ exitCode = 0 /\ Accepted
  /\ TheName = <<"a", "-">>

\* C11: the file of every template-writing step that has succeeded has exactly
\* the template content, whether or not there was a file before; app/page.tsx
\* and next.config.ts no longer have the content the scaffolder gave them.
C11_OverwriteUnconditionally ==
  /\ \A s \in TemplateSteps :
       Happened(s, "ok") =>
         /\ <<TheName, TargetPath(s)>> \in DOMAIN files
         /\ files[<<TheName, TargetPath(s)>>] = TemplateOf(s, TheName)
  /\ Happened("updateMainPage", "ok") =>
       files[<<TheName, <<"app", "page.tsx">>>>] # ScaffoldPage
  /\ Happened("createOptimizedNextConfig", "ok") =>
       files[<<TheName, <<"next.config.ts">>>>] # ScaffoldConfig

C11_Witness ==
  /\ Happened("createNextApp", "ok")
  /\ Happened("updateMainPage", "ok")
  /\ Happened("createOptimizedNextConfig", "ok")
  /\ files[<<TheName, <<"app", "page.tsx">>>>] = <<"template of", "updateMainPage">>

\* the files the claim names, relative to the project directory
GeneratedSurface ==
  {<<"app", "not-found.tsx">>, <<"app", "error.tsx">>, <<"app", "loading.tsx">>,
   <<"app", "sitemap.ts">>, <<"app", "robots.ts">>, <<"proxy.ts">>, <<".env">>,
   <<"next.config.ts">>, <<"lib", "fonts.ts">>,
   <<"components", "theme-provider.tsx">>, <<"components", "mode-toggle.tsx">>,
   <<"components", "mobile-menu.tsx">>, <<"components", "header.tsx">>,
   <<"components", "footer.tsx">>, <<"components", "hover-prefetch-link.tsx">>}

SuccessfulRun == pc = "exited" /\ exitCode = 0 /\ Accepted

\* C12: after a successful run every file of the generated surface exists in
\* the project directory.
C12_SurfaceComplete ==
  SuccessfulRun => \A p \in GeneratedSurface : <<TheName, p>> \in DOMAIN files

C12_Witness ==
  /\ SuccessfulRun
  /\ <<TheName, <<"proxy.ts">>>> \in DOMAIN files
  /\ <<TheName, <<"lib", "fonts.ts">>>> \in DOMAIN files

\* C13: among the package-manager calls of a successful run there is one that
\* installs the Motion library.
C13_MotionInstalled ==
  SuccessfulRun =>
    \E i \in 1..Len(trace) :
      /\ trace[i].step \in {"npmNextThemes", "npmThirdParties"}
      /\ trace[i].ev = "start"
      /\ \E k \in 1..Len(trace[i].arg) :
           trace[i].arg[k] \in {"motion", "motion@latest", "framer-motion"}

\* C14: the steps run strictly one after the other: a step that has started is
\* the only one in progress, the next thing that happens is that same step
\* ending, and a step starts only when nothing is in progress.
C14_Sequential ==
  /\ \A i \in 1..Len(trace) :
       trace[i].ev = "start" =>
         IF i = Len(trace)
         THEN running = trace[i].step /\ pc = trace[i].step
         ELSE trace[i + 1].step = trace[i].step /\ trace[i + 1].ev \in {"ok", "fail"}
  /\ \A i \in 1..Len(trace) :
       (trace[i].ev \in {"ok", "fail"} /\ trace[i].step # "chdir") =>
         (i > 1 /\ trace[i - 1] = Event(trace[i].step, "start", trace[i - 1].arg))
  /\ running # "none" <=> (trace # <<>> /\ LastEvent.ev = "start")

C14_Witness ==
  /\ Len(trace) >= 4
  /\ trace[Len(trace) - 2].step = "shadcnAddAll" /\ trace[Len(trace) - 2].ev = "ok"
  /\ trace[Len(trace) - 1].step = "npmNextThemes" /\ trace[Len(trace) - 1].ev = "start"
  /\ LastEvent.step = "npmNextThemes" /\ LastEvent.ev = "ok"
  /\ running = "none"

\* C15: the working directory changes only in the chdir step, from the starting
\* directory into the project directory, right after the scaffolder succeeded;
\* from then on it is the project directory, and a run that ended without a
\* successful scaffolder (help, usage or format error, scaffolder failure) is
\* still in the starting directory.
C15_ChdirOnce ==
  /\ [][cwd' # cwd =>
          /\ pc = "chdir"
          /\ cwd = <<>>
          /\ cwd' = TheName
          /\ LastEvent.step = "createNextApp" /\ LastEvent.ev = "ok"
          /\ trace'[Len(trace')].step = "chdir" /\ trace'[Len(trace')].ev = "ok"]_vars
  /\ [](Happened("chdir", "ok") => cwd = TheName)
  /\ [](~Happened("chdir", "ok") => cwd = <<>>)
  /\ []((pc = "exited" /\ ~Happened("createNextApp", "ok")) => cwd = <<>>)
  /\ []((pc = "exited" /\ exitCode = 0 /\ Accepted) => cwd = TheName)

C15_Witness ==
  /\ pc = "exited" /\ exitCode = 1
  /\ Happened("chdir", "ok")
  /\ cwd = MyApp

\* the layout file of the project, seen from the starting directory
ProjectLayout == <<TheName, <<"app", "layout.tsx">>>>

PatchSettled(ev) ==
  trace # <<>> /\ LastEvent.step = "updateRootLayout" /\ LastEvent.ev = ev

\* C16 as stated: when the layout patch has run and the layout file lacks one of
\* the three markers afterwards (a substitution was tried and matched nothing),
\* the patch has thrown and the run ends with exit code 1.
C16_AsStated ==
  (/\ pc = "exited"
   /\ Happened("updateRootLayout", "start")
   /\ ProjectLayout \in DOMAIN files
   /\ ~AllMarkers(files[ProjectLayout]))
  => (Happened("updateRootLayout", "fail") /\ exitCode = 1)

\* C16 amended: the layout patch throws only when reading or writing the layout
\* file fails; a substitution that matches nothing throws nothing, so the patch
\* returns and the run goes on with the next step even when the layout file
\* still lacks a marker.
C16_NoMatchNoThrow ==
  /\ \A i \in 1..Len(trace) :
       (trace[i].step = "updateRootLayout" /\ trace[i].ev = "fail") =>
         trace[i].arg \in {<<"readFile">>, <<"writeFile">>}
  /\ PatchSettled("ok") =>
       /\ pc = "createModeToggle"
       /\ ProjectLayout \in DOMAIN files

C16_Witness ==
  /\ pc = "exited" /\ exitCode = 0
  /\ Happened("updateRootLayout", "ok")
  /\ \E i \in 1..Len(files[ProjectLayout]) :
       files[ProjectLayout][i] = "from \"@/components/theme-provider\""
  /\ \A i \in 1..Len(files[ProjectLayout]) : files[ProjectLayout][i] # "<ThemeProvider"

\* none of the texts the three patterns look for, none of the three markers
NoAnchorNoMarker(c) ==
  \A i \in 1..Len(c) :
    c[i] \notin {"import \"./globals.css\";", "import \"a/globals.css\";", "<body", "<html",
                 "from \"@/components/theme-provider\"", "<ThemeProvider",
                 "suppressHydrationWarning"}

\* C17: when the layout patch settles on an existing layout file that has none
\* of the anchor texts and none of the markers, it either returns, with the disk
\* exactly as it was and the run going on to the next step, or it failed in
\* reading or writing the file.
C17_NoAnchorsUnchanged ==
  [][(/\ running = "updateRootLayout"
      /\ trace' # trace
      /\ ProjectLayout \in DOMAIN files
      /\ NoAnchorNoMarker(files[ProjectLayout]))
     => \/ /\ trace'[Len(trace')] = Event("updateRootLayout", "ok", <<>>)
           /\ files' = files /\ dirs' = dirs
           /\ pc' = "createModeToggle"
        \/ /\ trace'[Len(trace')].ev = "fail"
           /\ trace'[Len(trace')].arg \in {<<"readFile">>, <<"writeFile">>}
           /\ pc' = "catch"]_vars

C17_Witness ==
  /\ pc = "exited" /\ exitCode = 0 /\ SuccessPrinted
  /\ NoAnchorNoMarker(files[ProjectLayout])
  /\ files[ProjectLayout] # <<>>

\* number of fragments of c equal to x
Count(c, x) == Cardinality({i \in 1..Len(c) : c[i] = x})

Has(c, x) == Count(c, x) > 0

\* the texts the three patterns can match in c
HasCssLine(c) == \E i \in 1..Len(c) : c[i] \in CssAnchors
HasBodyElement(c) ==
  \E i, j, k \in 1..Len(c) :
    i < j /\ j < k /\ c[i] = "<body" /\ c[j] \in GtTokens /\ c[k] = "</body>"
HasHtmlTag(c) ==
  \E i, j \in 1..Len(c) : i < j /\ c[i] = "<html" /\ c[j] \in GtTokens

\* one fragment that only the respective replacement text brings in
ImportTrace == ImportReplacement[4]
BodyTrace == "\n              [/main] [Footer] [/div] [/ThemeProvider]"
HtmlTrace == " className={^${inter.variable} antialiased^}"

\* how often a substitution is applied to c: once when its marker m is missing
\* and its pattern can match, else not at all
Applied(c, m, can) == IF ~Has(c, m) /\ can THEN 1 ELSE 0

\* C18: a layout patch that returns has applied the import insertion, the body
\* wrapping and the html-tag replacement each exactly when its own marker was
\* missing from the content read (and its pattern had something to match),
\* independently of the other two markers and of the substitutions before it.
C18_OwnGuards ==
  [][(/\ running = "harness"
      /\ pc = "updateRootLayout"
      /\ trace' # trace
      /\ trace'[Len(trace')].ev = "ok")
     => LET c == files[LayoutFile]
            n == files'[LayoutFile]
        IN /\ Count(n, ImportTrace)
                = Count(c, ImportTrace) + Applied(c, "from \"@/components/theme-provider\"", HasCssLine(c))
           /\ Count(n, BodyTrace)
                = Count(c, BodyTrace) + Applied(c, "<ThemeProvider", HasBodyElement(c))
           /\ Count(n, HtmlTrace)
                = Count(c, HtmlTrace) + Applied(c, "suppressHydrationWarning", HasHtmlTag(c))]_vars

C18_Witness ==
  /\ running = "harness" /\ pc = "updateRootLayout"
  /\ Len(trace) = 1 /\ trace[1].ev = "ok"
  /\ Count(files[LayoutFile], ImportTrace) = 1
  /\ Count(files[LayoutFile], HtmlTrace) = 0
  /\ Count(files[LayoutFile], BodyTrace) = 1

\* C19 as stated: when the layout patch starts, every template-writing step has
\* succeeded.
C19_AsStated ==
  Happened("updateRootLayout", "start") =>
    \A s \in TemplateSteps : Happened(s, "ok")

\* C19 amended: the layout patch is the second file step: when it starts the
\* theme provider is the one template that has been written, no other template
\* step has started, and when the patch fails no template content other than
\* the theme provider's is on disk.
C19_PatchSecond ==
  /\ \A i \in 1..Len(trace) :
       trace[i].step = "updateRootLayout" =>
         \A s \in TemplateSteps :
           (\E j \in 1..(i - 1) : trace[j].step = s) <=> s = "createThemeProvider"
  /\ Happened("updateRootLayout", "start") => Happened("createThemeProvider", "ok")
  /\ PatchSettled("fail") =>
       \A s \in TemplateSteps \ {"createThemeProvider"} :
         <<TheName, TargetPath(s)>> \in DOMAIN files =>
           files[<<TheName, TargetPath(s)>>] # TemplateOf(s, TheName)

C19_Witness ==
  /\ pc = "exited" /\ exitCode = 1
  /\ PatchSettled("fail")
  /\ <<TheName, <<"components", "theme-provider.tsx">>>> \in DOMAIN files
  /\ <<TheName, <<"components", "mode-toggle.tsx">>>> \notin DOMAIN files

\* the disk after file function s ran without a fault on disk [dirs, files]
After(s, disk) == RunStep(s, TheName, cwd, disk.dirs, disk.files, "none")

\* s then t and t then s both go through and leave the same disk
Commute(s, t) ==
  LET here == [dirs |-> dirs, files |-> files]
      st == After(t, After(s, here))
      ts == After(s, After(t, here))
  IN /\ After(s, here).ok /\ After(t, here).ok /\ st.ok /\ ts.ok
     /\ st.dirs = ts.dirs /\ st.files = ts.files

DistinctTargets ==
  \A s, t \in WriteSteps :
    s # t => <<WriteTarget(s).dir, WriteTarget(s).file>> # <<WriteTarget(t).dir, WriteTarget(t).file>>

\* every permuted function has been called and its file has what it writes
AllWritten ==
  \A s \in PermSteps :
    /\ <<cwd, TargetPath(s)>> \in DOMAIN files
    /\ s # "updateRootLayout" => files[<<cwd, TargetPath(s)>>] = TemplateOf(s, TheName)

\* C20 as stated: the file functions write to pairwise distinct paths, any two
\* of them that are still to be called can be called in either order with the
\* same resulting disk, and once all have been called, in whatever order, every
\* file is there.
C20_AsStated ==
  running = "permutation" =>
    /\ DistinctTargets
    /\ \A s, t \in PermSteps \ Called : s # t => Commute(s, t)
    /\ Called = PermSteps => AllWritten

\* C20 amended: the file functions write to pairwise distinct paths; when the
\* components directory exists, any two of them can be called in either order
\* with the same resulting disk, and every order of calls ends with every file
\* written; the one call that can fail is createModeToggle (like the other
\* functions that write into components/ without creating it) before
\* createThemeProvider on a disk without components/.
C20_OrderFreeGivenComponents ==
  running = "permutation" =>
    /\ DistinctTargets
    /\ <<cwd, <<"components">>>> \in dirs =>
         /\ \A s, t \in PermSteps \ Called : s # t => Commute(s, t)
         /\ trace = <<>> => \A s, t \in WriteSteps : s # t => Commute(s, t)
    /\ \A i \in 1..Len(trace) :
         trace[i].ev = "fail" =>
           /\ trace[i] = Event("createModeToggle", "fail", <<"writeFile">>)
           /\ \A j \in 1..(i - 1) : trace[j].step # "createThemeProvider"
    /\ (Called = PermSteps /\ \A i \in 1..Len(trace) : trace[i].ev = "ok") => AllWritten

C20_Witness ==
  /\ running = "permutation"
  /\ Len(trace) = 5
  /\ trace[1] = Event("updateMainPage", "ok", <<>>)
  /\ trace[2] = Event("createModeToggle", "ok", <<>>)
  /\ trace[5] = Event("createThemeProvider", "ok", <<>>)
  /\ files[<<cwd, <<"components", "mode-toggle.tsx">>>>] = <<"template of", "createModeToggle">>

\* C21: every run ends: from the start the run reaches the terminal state with
\* exit code 0 or 1, whatever the arguments and whichever step fails, and a run
\* that has ended keeps its exit code.
C21_Terminates ==
  /\ (pc = "main") ~> (pc = "exited" /\ exitCode \in {0, 1} /\ running = "none")
  /\ [](pc = "exited" => exitCode \in {0, 1})
  /\ [][pc = "exited" => pc' = "exited" /\ exitCode' = exitCode]_vars

C21_Witness ==
  /\ pc = "exited" /\ exitCode = 1
  /\ Happened("delay", "ok")
  /\ Happened("npmThirdParties", "fail")

\* the run starts with the scaffolder called on name n
ScaffoldingStarted(n) ==
  /\ Accepted
  /\ trace = <<>> => pc = "createNextApp"
  /\ trace # <<>> => trace[1] = Event("createNextApp", "start", n)
  /\ Happened("createNextApp", "ok") => <<n, <<>>>> \in dirs

\* C22 as stated: for every name that matches ^[a-z0-9-]+$ and is the only
\* argument, the run goes on to the scaffolder, called with exactly that name.
C22_AsStated ==
  (pc # "main" /\ Len(argv) = 3 /\ MatchesPattern(argv[3])) => ScaffoldingStarted(argv[3])

\* C22 amended: for every name that matches ^[a-z0-9-]+$, is the only argument
\* and is neither --help nor -h, the run goes on to the scaffolder, called with
\* exactly that name; the names --help and -h end the run with the help text
\* and exit code 0 before anything is started.
C22_ValidNameScaffolds ==
  (pc # "main" /\ Len(argv) = 3 /\ MatchesPattern(argv[3])) =>
     IF argv[3] \in {<<"-", "-", "h", "e", "l", "p">>, <<"-", "h">>}
     THEN pc = "exited" /\ exitCode = 0 /\ NoSideEffect /\ out = <<Stdout(HelpText)>>
     ELSE ScaffoldingStarted(argv[3])

C22_Witness ==
  /\ Len(argv) = 3 /\ argv[3] = <<"-", "0">>
  /\ Happened("createNextApp", "ok")
  /\ trace[1] = Event("createNextApp", "start", <<"-", "0">>)

\* the one outcome the argument vector calls for: help flag first, then
\* missing name, then name format
Outcome ==
  IF HelpRequested THEN "help"
  ELSE IF ~NameGiven THEN "usage"
  ELSE IF ~MatchesPattern(TheName) THEN "format"
  ELSE "run"

\* C23: once the argument checks are done the run shows exactly the outcome
\* that the priority help, missing name, name format selects: help text and
\* exit code 0, usage error and exit code 1, format error and exit code 1, or
\* the start of scaffolding with nothing printed by the checks; an empty name
\* gets the usage error.
C23_CheckPriority ==
  pc # "main" =>
    /\ Outcome = "help" =>
         (pc = "exited" /\ exitCode = 0 /\ out = <<Stdout(HelpText)>> /\ trace = <<>>)
    /\ Outcome = "usage" =>
         (pc = "exited" /\ exitCode = 1 /\ out = <<Stderr(UsageError)>> /\ trace = <<>>)
    /\ Outcome = "format" =>
         (pc = "exited" /\ exitCode = 1 /\ out = <<Stderr(FormatError)>> /\ trace = <<>>)
    /\ Outcome = "run" =>
         /\ Accepted
         /\ \A i \in 1..Len(out) :
              out[i] \notin {Stdout(HelpText), Stderr(UsageError), Stderr(FormatError)}
    /\ (Len(argv) >= 3 /\ argv[3] = <<>> /\ ~HelpRequested) => out = <<Stderr(UsageError)>>

C23_Witness ==
  /\ Len(argv) = 4 /\ argv[3] = <<>> /\ argv[4] = <<"x">>
  /\ pc = "exited" /\ exitCode = 1
  /\ out = <<Stderr(UsageError)>>

\* the events of the subprocess prefix in the order both scripts give them
PrefixEvents ==
  <<[step |-> "createNextApp", ev |-> "start"], [step |-> "createNextApp", ev |-> "ok"],
    [step |-> "chdir", ev |-> "ok"],
    [step |-> "shadcnInit", ev |-> "start"], [step |-> "shadcnInit", ev |-> "ok"],
    [step |-> "delay", ev |-> "start"], [step |-> "delay", ev |-> "ok"],
    [step |-> "shadcnAddAll", ev |-> "start"], [step |-> "shadcnAddAll", ev |-> "ok"]>>

IsVariant == argv[2] = <<"/", "p", "a", "r", "t", "_", "0", "0", "0">>

\* the checks have chosen outcome o: the stream and exit code that go with it
Chose(o) ==
  CASE o = "help" ->
         /\ pc = "exited" /\ exitCode = 0 /\ trace = <<>>
         /\ Len(out) = 1 /\ out[1].stream = "stdout"
    [] o = "usage" ->
         /\ pc = "exited" /\ exitCode = 1 /\ trace = <<>>
         /\ out = <<Stderr(<<"Please provide a project name:">>)>>
    [] o = "format" ->
         /\ pc = "exited" /\ exitCode = 1 /\ trace = <<>>
         /\ Len(out) = 1 /\ out[1].stream = "stderr"
         /\ out[1] # Stderr(<<"Please provide a project name:">>)
    [] OTHER -> Accepted

\* C29: whichever of the two scripts runs, the argument vector alone selects
\* the outcome of the checks, the first events of the run are the prefix
\* scaffolder, chdir, init, delay, add-all in this order with the name handed
\* to scaffolder and chdir, the first failure is the last event and leads
\* through the catch clause to exit code 1, and in part_000 nothing follows
\* the prefix and the disk changes only while scaffolder or add-all runs.
C29_VariantsAgree ==
  /\ [](pc # "main" => Chose(Outcome))
  /\ [](\A i \in 1..Len(trace) :
          /\ i <= Len(PrefixEvents) =>
               /\ trace[i].step = PrefixEvents[i].step
               /\ trace[i].ev = PrefixEvents[i].ev \/ trace[i].ev = "fail"
               /\ trace[i].step \in {"createNextApp", "chdir"} => trace[i].arg = TheName
          /\ trace[i].ev = "fail" =>
               /\ i = Len(trace)
               /\ pc \in {"catch", "exited"}
               /\ pc = "exited" => exitCode = 1
          /\ IsVariant => i <= Len(PrefixEvents))
  /\ []((IsVariant /\ Len(trace) = Len(PrefixEvents) /\ LastEvent.ev = "ok" /\ pc = "exited")
          => (exitCode = 0 /\ SuccessPrinted))
  /\ [][(IsVariant /\ (files' # files \/ dirs' # dirs))
          => running \in {"createNextApp", "shadcnAddAll"}]_vars

C29_Witness ==
  /\ IsVariant
  /\ pc = "exited" /\ exitCode = 0
  /\ Len(trace) = 9
  /\ LastEvent = Event("shadcnAddAll", "ok", <<>>)
  /\ TheName = <<"a", "-">>

BodyOf(c) ==
  LET i == FirstIdx(c, 1, {"<body"})
      j == IF i = 0 THEN 0 ELSE FirstIdx(c, i + 1, {">"})
      k == IF j = 0 THEN 0 ELSE FirstIdx(c, j + 1, {"</body>"})
  IN IF k = 0 THEN [at |-> 0, tag |-> <<>>, content |-> <<>>]
     ELSE [at |-> i, tag |-> SubSeq(c, i, j), content |-> SubSeq(c, j + 1, k - 1)]

\* the wrapper of line 206 before and after the body content
WrapperHead == SubSeq(Wrapper(<<>>), 1, 3)
WrapperTail == SubSeq(Wrapper(<<>>), 4, 4)

\* C25: when the body wrapping applies, the body element of the result has the
\* opening tag of the original, and as its content the wrapper around the
\* trimmed original content, whatever that content is.
C25_BodyWrapped ==
  [][(/\ running = "harness"
      /\ pc = "updateRootLayout"
      /\ trace' # trace
      /\ trace'[Len(trace')].ev = "ok"
      /\ ~Has(files[LayoutFile], "<ThemeProvider")
      /\ BodyOf(files[LayoutFile]).at > 0)
     => LET old == BodyOf(files[LayoutFile])
            new == BodyOf(files'[LayoutFile])
        IN /\ new.at > 0
           /\ new.tag = old.tag
           /\ new.content = WrapperHead \o Trim(old.content) \o WrapperTail]_vars

\* the template functions that call mkdir(dir, { recursive: true }) before
\* writeFile
MkdirSteps ==
  {"createThemeProvider", "createMobileMenu", "createHeaderComponent",
   "createFooterComponent", "createHoverPrefetchLink", "createAboutPage",
   "createContactPage", "createPrivacyPage", "createTermsPage",
   "createGetStartedPage", "createDocsPage", "createOptimizedFonts"}

\* the directory the file of step s goes into
ParentOf(s) == <<cwd, SubSeq(TargetPath(s), 1, Len(TargetPath(s)) - 1)>>

TemplateSettles ==
  /\ running = "harness"
  /\ pc \in TemplateSteps
  /\ trace' # trace

\* C26 as stated: when a template-writing step has settled, the directory of
\* its file exists (unless mkdir itself was rejected), whether or not it
\* existed before.
C26_AsStated ==
  [][TemplateSettles =>
       (trace'[Len(trace')].arg # <<"mkdir">> => ParentOf(pc) \in dirs')]_vars

\* C26 amended: the twelve template-writing steps that call mkdir leave the
\* directory of their file in place, whether or not it existed before; every
\* other template-writing step creates no directory, and when the directory of
\* its file is missing it fails in writeFile and writes nothing.
C26_MkdirOnlyInSome ==
  [][TemplateSettles =>
       IF pc \in MkdirSteps
       THEN trace'[Len(trace')].arg # <<"mkdir">> => ParentOf(pc) \in dirs'
       ELSE /\ dirs' = dirs
            /\ ParentOf(pc) \notin dirs =>
                 /\ trace'[Len(trace')] = Event(pc, "fail", <<"writeFile">>)
                 /\ files' = files]_vars

C26_Witness ==
  /\ running = "harness" /\ pc = "createModeToggle"
  /\ Len(trace) = 1
  /\ trace[1] = Event("createModeToggle", "fail", <<"writeFile">>)
  /\ <<cwd, <<"components">>>> \notin dirs
  /\ <<cwd, <<"components", "mode-toggle.tsx">>>> \notin DOMAIN files

\* the names the file functions are compared on
OtherNames == {<<"m", "y", "-", "a", "p", "p">>, <<"a">>, <<"0", "-">>}

\* the two contents differ at most in the name after NEXT_PUBLIC_APP_NAME=
SameButNameLine(a, na, b, nb) ==
  /\ a[1] = "NEXT_PUBLIC_APP_NAME=" /\ b[1] = "NEXT_PUBLIC_APP_NAME="
  /\ SubSeq(a, 2, Len(na) + 1) = na /\ SubSeq(b, 2, Len(nb) + 1) = nb
  /\ a[Len(na) + 2] = "\n"
  /\ SubSeq(a, Len(na) + 2, Len(a)) = SubSeq(b, Len(nb) + 2, Len(b))

\* C27: a file function that returns leaves the disk that the same function,
\* called on the same disk for any other project name, would leave: the same
\* directories, the same paths and the same contents, except for the name in
\* the NEXT_PUBLIC_APP_NAME line of the .env file.
C27_NameOnlyInEnv ==
  [][(/\ running = "harness"
      /\ pc \in WriteSteps
      /\ trace' # trace
      /\ trace'[Len(trace')].ev = "ok")
     => \A n \in OtherNames :
          LET other == RunStep(pc, n, cwd, dirs, files, "none")
          IN /\ other.ok
             /\ other.dirs = dirs'
             /\ DOMAIN other.files = DOMAIN files'
             /\ \A p \in DOMAIN files' :
                  IF p = <<cwd, <<".env">>>> /\ pc = "createEnvFile"
                  THEN SameButNameLine(files'[p], TheName, other.files[p], n)
                  ELSE other.files[p] = files'[p]]_vars

C27_Witness ==
  /\ running = "harness" /\ pc = "createEnvFile" /\ TheName = <<"a">>
  /\ Len(trace) = 1 /\ trace[1].ev = "ok"
  /\ SubSeq(files[<<cwd, <<".env">>>>], 1, 3) = <<"NEXT_PUBLIC_APP_NAME=", "a", "\n">>

\* the first component of a path: the directory below the starting directory
InProject(p) == p[1] = TheName

\* C28: the disk changes only while the scaffolder or add-all runs, or while a
\* file function runs after the successful chdir, with the project directory
\* as working directory and only paths inside it affected; no file and no
\* directory other than the project directory ever appears in the starting
\* directory.
C28_WritesInsideProject ==
  /\ [][(files' # files \/ dirs' # dirs) =>
          \/ running \in {"createNextApp", "shadcnAddAll"}
          \/ /\ running \in WriteSteps
             /\ Happened("chdir", "ok") /\ cwd = TheName
             /\ \A p \in (DOMAIN files') \ DOMAIN files : InProject(p)
             /\ \A p \in (DOMAIN files') \cap DOMAIN files :
                  files'[p] # files[p] => InProject(p)
             /\ \A d \in dirs' \ dirs : InProject(d)]_vars
  /\ [](\A p \in DOMAIN files : InProject(p))
  /\ [](\A d \in dirs : d = <<<<>>, <<>>>> \/ InProject(d))
  /\ []((running \in WriteSteps \/ pc \in WriteSteps) => cwd = TheName)

C28_Witness ==
  /\ Happened("chdir", "ok")
  /\ Happened("createOptimizedFonts", "ok")
  /\ <<TheName, <<"lib">>>> \in dirs
  /\ <<<<>>, <<"lib">>>> \notin dirs
  /\ <<TheName, <<"lib", "fonts.ts">>>> \in DOMAIN files

====
